---- MODULE Spec2Model ----
(***************************************************************************)
(* The `popper run` command (src/cli/popper/commands/cmd_run.py) as a      *)
(* state machine: one action per statement of cli(), in program order,     *)
(* and the collaborators it calls (the logging sink, WorkflowParser,       *)
(* ConfigLoader, WorkflowRunner with its Step Scheduler, Resource Manager  *)
(* and Execution Backend) as described by spec.md, since their code is     *)
(* not part of src/.                                                       *)
(***************************************************************************)
EXTENDS Naturals, Integers, Sequences, FiniteSets, TLC

\* ------------------------------------------------------------------ bounds
\* Steps of a workflow are identified 1..NumSteps, in declared order.
NumSteps == 3
\* Invocations of the command on the same machine under SpecReuse.
MaxRuns == 2

Steps == 1..NumSteps
None == 0
Vars == {"X", "Y"}
Workspaces == {"w1", "w2"}
WFiles == {"flat", "chain", "fan"}

\* ------------------------------------------------------------------ state
VARIABLES
    pc,            \* position of cli(): the statement about to execute
    runs,          \* invocations started so far
    \* parameters of cli()
    step, skip, debug, quiet, dry_run, reuse, allow_loose, substitution,
    workspace, wfile, log_file,
    \* the logging sink (popper.log): process-wide level, prefix and handlers
    level, levelSets, msg_prefix, handlers, emitted,
    \* locals of cli()
    wf, config, runner, releaseCount, failure,
    \* the Workflow Runner's run: per-step state, dispatch order, result
    st, dispatched, backendCalls, ctxOf, runResult, fault,
    \* Execution Contexts: persisted per (workspace, step), live set, allocator
    store, live, nextCtx,
    \* history: what the previous invocation ran with and the contexts it used
    prevRun

argVars == <<step, skip, debug, quiet, dry_run, reuse, allow_loose,
             substitution, workspace, wfile, log_file>>
logVars == <<level, levelSets, msg_prefix, handlers, emitted>>
runVars == <<st, dispatched, backendCalls, ctxOf, runResult, fault>>
ctxVars == <<store, live, nextCtx>>
vars == <<pc, runs, argVars, logVars, wf, config, runner, releaseCount,
          failure, runVars, ctxVars, prevRun>>

\* ------------------------------------------------------- workflow files
\* The workflows the files of WFiles define: every one declares the steps
\* 1..NumSteps in that order; they differ in declared dependencies and in
\* the substitution variables their steps reference.
DepsOf(file, s) ==
    CASE file = "flat"  -> {}
      [] file = "chain" -> IF s > 1 THEN {s - 1} ELSE {}
      [] file = "fan"   -> IF s > 1 THEN {1} ELSE {}

RefsOf(file, s) ==
    CASE file = "flat"  -> {}
      [] file = "chain" -> IF s = 1 THEN {"X"} ELSE {}
      [] file = "fan"   -> {}

Declared(file) == [i \in Steps |-> i]

\* ------------------------------------------------------------- logging
\* Numeric order of the sink's levels: a record is emitted when its
\* channel's rank is at least the rank of the logger's level.
Rank(l) ==
    CASE l = "NOTSET"    -> 0
      [] l = "DEBUG"     -> 10
      [] l = "STEP_INFO" -> 15
      [] l = "INFO"      -> 20
      [] l = "ERROR"     -> 40

\* One record handed to the sink on channel chan; the prefix is the
\* process-wide msg_prefix at the time the record is formatted.
Emit(log, lvl, prefix, chan, text) ==
    IF Rank(chan) >= Rank(lvl)
    THEN Append(log, [prefix |-> prefix, chan |-> chan, text |-> text])
    ELSE log

\* Python truthiness of the STEP argument (None when not given).
Given(s) == s # None

\* cmd_run.py:142-146
LevelForQuietWins(q, d) ==
    LET l0 == "STEP_INFO"
        l1 == IF d THEN "DEBUG" ELSE l0
        l2 == IF q THEN "INFO" ELSE l1
    IN  l2

LevelFor(q, d) ==
    LET l0 == "STEP_INFO"
        l1 == IF q THEN "INFO" ELSE l0
        l2 == IF d THEN "DEBUG" ELSE l1
    IN  l2

\* ------------------------------------------------------ WorkflowParser
\* WorkflowParser.parse validates the substitutions against the whole
\* workflow: a referenced variable without a value, then (unless loose) a
\* supplied key that no step references.
Unresolved(file, subs) == \E s \in Steps : ~(RefsOf(file, s) \subseteq subs)

UnusedKeys(file, subs) == {k \in subs : \A s \in Steps : k \notin RefsOf(file, s)}

ParseFailure(file, subs, loose) ==
    IF Unresolved(file, subs) THEN "UnresolvedVariable"
    ELSE IF ~loose /\ UnusedKeys(file, subs) # {} THEN "UnusedSubstitution"
    ELSE "none"

\* The steps left by the filters: the target step alone when one is
\* given, otherwise every step that is not on the skip-list.
Eligible(target, skipped) ==
    {s \in Steps : s \notin skipped /\ (Given(target) => s = target)}

NoWorkflow == [parsed |-> FALSE, file |-> "flat", eligible |-> {}]

Parsed(file, target, skipped) ==
    [parsed |-> TRUE, file |-> file, eligible |-> Eligible(target, skipped)]

\* -------------------------------------------------------- ConfigLoader
NoConfig == [loaded |-> FALSE, reuse |-> FALSE, dry_run |-> FALSE,
             workspace_dir |-> "w1"]

\* cmd_run.py:169-178: the Run Configuration built from the flags.
LoadedConfigNoDryRun(r, d, w) ==
    [loaded |-> TRUE, reuse |-> r, dry_run |-> FALSE, workspace_dir |-> w]

LoadedConfigNoReuse(r, d, w) ==
    [loaded |-> TRUE, reuse |-> FALSE, dry_run |-> d, workspace_dir |-> w]

LoadedConfig(r, d, w) ==
    [loaded |-> TRUE, reuse |-> r, dry_run |-> d, workspace_dir |-> w]

\* ---------------------------------------------------------------- Init
NoRun == [used |-> FALSE, reuse |-> FALSE, dry_run |-> FALSE,
          workspace |-> "w1", wfile |-> "flat",
          ctxOf |-> [s \in Steps |-> 0]]

AllPending == [s \in Steps |-> "Pending"]

NoContexts == [s \in Steps |-> None]

Init ==
    /\ pc = "idle"
    /\ runs = 0
    /\ step = None
    /\ skip = {}
    /\ debug = FALSE
    /\ quiet = FALSE
    /\ dry_run = FALSE
    /\ reuse = FALSE
    /\ allow_loose = FALSE
    /\ substitution = {}
    /\ workspace = "w1"
    /\ wfile = "flat"
    /\ log_file = FALSE
    /\ level = "NOTSET"
    /\ levelSets = 0
    /\ msg_prefix = ""
    /\ handlers = {"console"}
    /\ emitted = <<>>
    /\ wf = NoWorkflow
    /\ config = NoConfig
    /\ runner = "none"
    /\ releaseCount = 0
    /\ failure = "none"
    /\ st = AllPending
    /\ dispatched = <<>>
    /\ backendCalls = 0
    /\ ctxOf = NoContexts
    /\ runResult = "none"
    /\ fault = FALSE
    /\ store = [w \in Workspaces |-> [s \in Steps |-> None]]
    /\ live = {}
    /\ nextCtx = 1
    /\ prevRun = NoRun

\* ------------------------------------------------------ command lines
\* Every command line over the modelled options.
AllArgs ==
    [step : {None} \cup Steps, skip : SUBSET Steps, debug : BOOLEAN,
     quiet : BOOLEAN, dry_run : BOOLEAN, reuse : BOOLEAN,
     allow_loose : BOOLEAN, substitution : SUBSET Vars,
     workspace : Workspaces, wfile : WFiles, log_file : BOOLEAN]

\* A new process runs cli(a): the process-wide logging state and the
\* locals start afresh; the workspaces' persisted contexts stay.
Invoke(a) ==
    /\ pc \in {"idle", "done"}
    /\ pc' = "set_level"
    /\ runs' = runs + 1
    /\ step' = a.step
    /\ skip' = a.skip
    /\ debug' = a.debug
    /\ quiet' = a.quiet
    /\ dry_run' = a.dry_run
    /\ reuse' = a.reuse
    /\ allow_loose' = a.allow_loose
    /\ substitution' = a.substitution
    /\ workspace' = a.workspace
    /\ wfile' = a.wfile
    /\ log_file' = a.log_file
    /\ level' = "NOTSET"
    /\ levelSets' = 0
    /\ msg_prefix' = ""
    /\ handlers' = {"console"}
    /\ emitted' = <<>>
    /\ wf' = NoWorkflow
    /\ config' = NoConfig
    /\ runner' = "none"
    /\ releaseCount' = 0
    /\ failure' = "none"
    /\ st' = AllPending
    /\ dispatched' = <<>>
    /\ backendCalls' = 0
    /\ ctxOf' = NoContexts
    /\ runResult' = "none"
    /\ fault' = FALSE
    /\ prevRun' = IF pc = "done"
                  THEN [used |-> TRUE, reuse |-> reuse, dry_run |-> dry_run,
                        workspace |-> workspace, wfile |-> wfile,
                        ctxOf |-> ctxOf]
                  ELSE prevRun
    /\ UNCHANGED ctxVars

\* log.fail raises SystemExit: outside the `with` block the process ends;
\* inside it (cmd_run.py:180-185) the exit unwinds through the runner's
\* __exit__ first.
AfterFailNoUnwind(scoped) == "done"

AfterFail(scoped) == IF scoped THEN "exit" ELSE "done"

\* ------------------------------------------------------------- cli()
\* cmd_run.py:141-147
SetLevel ==
    /\ pc = "set_level"
    /\ level' = LevelFor(quiet, debug)
    /\ levelSets' = levelSets + 1
    /\ pc' = "dry_prefix"
    /\ UNCHANGED <<runs, argVars, msg_prefix, handlers, emitted, wf, config,
                   runner, releaseCount, failure, runVars, ctxVars, prevRun>>

\* cmd_run.py:149-150
DryRunPrefix ==
    /\ pc = "dry_prefix"
    /\ msg_prefix' = IF dry_run THEN "DRYRUN: " ELSE msg_prefix
    /\ pc' = "add_log"
    /\ UNCHANGED <<runs, argVars, level, levelSets, handlers, emitted, wf,
                   config, runner, releaseCount, failure, runVars, ctxVars,
                   prevRun>>

\* cmd_run.py:152-154
AddLog ==
    /\ pc = "add_log"
    /\ handlers' = IF log_file THEN handlers \cup {"file"} ELSE handlers
    /\ pc' = "check_flags"
    /\ UNCHANGED <<runs, argVars, level, levelSets, msg_prefix, emitted, wf,
                   config, runner, releaseCount, failure, runVars, ctxVars,
                   prevRun>>

\* cmd_run.py:157: `skip and step`
ConflictingInverted(skipped, target) == skipped # {} /\ ~Given(target)

Conflicting(skipped, target) == skipped # {} /\ Given(target)

\* cmd_run.py:156-158: log.fail reports on the ERROR channel and ends the
\* process, so nothing after it runs.
CheckFlags ==
    /\ pc = "check_flags"
    /\ IF Conflicting(skip, step)
       THEN /\ emitted' = Emit(emitted, level, msg_prefix, "ERROR", "conflict")
            /\ failure' = "ConflictingFilters"
            /\ pc' = AfterFail(FALSE)
       ELSE /\ pc' = "parse"
            /\ UNCHANGED <<emitted, failure>>
    /\ UNCHANGED <<runs, argVars, level, levelSets, msg_prefix, handlers, wf,
                   config, runner, releaseCount, runVars, ctxVars, prevRun>>

\* cmd_run.py:161-167: what cli() hands to WorkflowParser.parse, and what
\* comes back: a failure, or the filtered workflow.
ParseOutcomeLoose == ParseFailure(wfile, substitution, TRUE)

ParseOutcome == ParseFailure(wfile, substitution, allow_loose)

ParseResultNoSkip == Parsed(wfile, step, {})

ParseResult == Parsed(wfile, step, skip)

\* cmd_run.py:160-167
Parse ==
    /\ pc = "parse"
    /\ LET err == ParseOutcome IN
       IF err # "none"
       THEN /\ emitted' = Emit(emitted, level, msg_prefix, "ERROR", err)
            /\ failure' = err
            /\ pc' = AfterFail(FALSE)
            /\ UNCHANGED wf
       ELSE /\ wf' = ParseResult
            /\ pc' = "load_config"
            /\ UNCHANGED <<emitted, failure>>
    /\ UNCHANGED <<runs, argVars, level, levelSets, msg_prefix, handlers,
                   config, runner, releaseCount, runVars, ctxVars, prevRun>>

\* cmd_run.py:169-178
LoadConfig ==
    /\ pc = "load_config"
    /\ config' = LoadedConfig(reuse, dry_run, workspace)
    /\ pc' = "enter"
    /\ UNCHANGED <<runs, argVars, logVars, wf, runner, releaseCount, failure,
                   runVars, ctxVars, prevRun>>

\* cmd_run.py:180: WorkflowRunner(config).__enter__ acquires the runner.
Enter ==
    /\ pc = "enter"
    /\ runner' = "acquired"
    /\ pc' = "run"
    /\ UNCHANGED <<runs, argVars, logVars, wf, config, releaseCount, failure,
                   runVars, ctxVars, prevRun>>

\* cmd_run.py:180: acquire rejects the configuration; the exception is
\* raised before the scoped block is entered, so there is nothing to
\* release.
EnterFail ==
    /\ pc = "enter"
    /\ failure' = "AcquireError"
    /\ pc' = "done"
    /\ UNCHANGED <<runs, argVars, logVars, wf, config, runner, releaseCount,
                   runVars, ctxVars, prevRun>>

\* ------------------------------------------- WorkflowRunner.run(wf)
Terminal == {"Succeeded", "Failed", "Skipped"}

\* Pool size 1 (cli() passes no pool size): the scheduler handles the
\* steps one at a time, in declared order.
Cur ==
    IF \E s \in Steps : st[s] \notin Terminal
    THEN CHOOSE s \in Steps :
             /\ st[s] \notin Terminal
             /\ \A t \in Steps : st[t] \notin Terminal => s <= t
    ELSE None

\* Fail-fast: a step has failed, nothing new is started.
AbortedNever == FALSE

Aborted == \E s \in Steps : st[s] = "Failed"

\* Every declared dependency of s has been observed Succeeded.
DepsSatisfiedUnlessFailed(s) ==
    \A d \in DepsOf(wf.file, s) : st[d] # "Failed"

DepsSatisfied(s) ==
    \A d \in DepsOf(wf.file, s) : st[d] = "Succeeded"

\* Pending -> Resolving, or Pending -> Skipped for a step that is filtered
\* out, aborted by fail-fast, or whose dependency did not succeed.
PlanStep ==
    /\ pc = "run"
    /\ Cur # None
    /\ st[Cur] = "Pending"
    /\ st' = [st EXCEPT ![Cur] =
                 IF Cur \in wf.eligible /\ ~Aborted /\ DepsSatisfied(Cur)
                 THEN "Resolving" ELSE "Skipped"]
    /\ UNCHANGED <<pc, runs, argVars, logVars, wf, config, runner,
                   releaseCount, failure, dispatched, backendCalls, ctxOf,
                   runResult, fault, ctxVars, prevRun>>

\* The context a real backend call gives step s: the persisted one of
\* (workspace, s) under reuse when there is one, a new one otherwise.
ContextFor(s) ==
    IF config.reuse /\ store[config.workspace_dir][s] # None
    THEN store[config.workspace_dir][s]
    ELSE nextCtx

\* Resolving -> Dispatched: the resolved step goes through the Resource
\* Manager to the Execution Backend. A dry run only describes the step; a
\* real run enters the backend's context acquisition, which either fails
\* (BackendSetupError, no context) or yields the step's context.
DispatchStep ==
    /\ pc = "run"
    /\ Cur # None
    /\ st[Cur] = "Resolving"
    /\ st' = [st EXCEPT ![Cur] = "Dispatched"]
    /\ dispatched' = Append(dispatched, Cur)
    /\ emitted' = Emit(emitted, level, msg_prefix, "INFO", "describe")
    /\ IF config.dry_run
       THEN UNCHANGED <<backendCalls, ctxOf, ctxVars>>
       ELSE /\ backendCalls' = backendCalls + 1
            /\ \E ok \in BOOLEAN :
                 IF ok
                 THEN LET c == ContextFor(Cur) IN
                      /\ ctxOf' = [ctxOf EXCEPT ![Cur] = c]
                      /\ live' = live \cup {c}
                      /\ nextCtx' = IF c = nextCtx THEN nextCtx + 1 ELSE nextCtx
                      /\ store' = IF config.reuse
                                  THEN [store EXCEPT
                                          ![config.workspace_dir][Cur] = c]
                                  ELSE store
                 ELSE UNCHANGED <<ctxOf, ctxVars>>
    /\ UNCHANGED <<pc, runs, argVars, level, levelSets, msg_prefix, handlers,
                   wf, config, runner, releaseCount, failure, runResult,
                   fault, prevRun>>

\* Dispatched -> Succeeded | Failed. Without reuse the step's context is
\* destroyed as the step finishes, whatever the result.
CompleteStep ==
    /\ pc = "run"
    /\ Cur # None
    /\ st[Cur] = "Dispatched"
    /\ IF config.dry_run
       THEN /\ st' = [st EXCEPT ![Cur] = "Succeeded"]
            /\ UNCHANGED <<emitted, live>>
       ELSE IF ctxOf[Cur] = None
       THEN /\ st' = [st EXCEPT ![Cur] = "Failed"]
            /\ UNCHANGED <<emitted, live>>
       ELSE /\ \E res \in {"Succeeded", "Failed"} :
                 st' = [st EXCEPT ![Cur] = res]
            /\ emitted' = Emit(emitted, level, msg_prefix, "STEP_INFO", "output")
            /\ live' = IF config.reuse THEN live ELSE live \ {ctxOf[Cur]}
    /\ UNCHANGED <<pc, runs, argVars, level, levelSets, msg_prefix, handlers,
                   wf, config, runner, releaseCount, failure, dispatched,
                   backendCalls, ctxOf, runResult, fault, store, nextCtx,
                   prevRun>>

\* Every step is terminal: run returns the Run Result (cmd_run.py:182;
\* cli() does not look at it) and the scoped block ends normally.
Finish ==
    /\ pc = "run"
    /\ Cur = None
    /\ runResult' = IF \E s \in Steps : st[s] = "Failed"
                    THEN "Failure" ELSE "Success"
    /\ pc' = "exit"
    /\ UNCHANGED <<runs, argVars, logVars, wf, config, runner, releaseCount,
                   failure, st, dispatched, backendCalls, ctxOf, fault,
                   ctxVars, prevRun>>

\* cmd_run.py:182-183: run raises an Exception, at any point of the run.
Fault ==
    /\ pc = "run"
    /\ fault' = TRUE
    /\ pc' = "handler_debug"
    /\ UNCHANGED <<runs, argVars, logVars, wf, config, runner, releaseCount,
                   failure, st, dispatched, backendCalls, ctxOf, runResult,
                   ctxVars, prevRun>>

\* cmd_run.py:184
TraceChannelInfo == "INFO"

TraceChannel == "DEBUG"

HandlerDebug ==
    /\ pc = "handler_debug"
    /\ emitted' = Emit(emitted, level, msg_prefix, TraceChannel, "trace")
    /\ pc' = "handler_fail"
    /\ UNCHANGED <<runs, argVars, level, levelSets, msg_prefix, handlers, wf,
                   config, runner, releaseCount, failure, runVars, ctxVars,
                   prevRun>>

\* cmd_run.py:185
HandlerFail ==
    /\ pc = "handler_fail"
    /\ emitted' = Emit(emitted, level, msg_prefix, "ERROR", "fault")
    /\ failure' = "InternalFault"
    /\ pc' = AfterFail(TRUE)
    /\ UNCHANGED <<runs, argVars, level, levelSets, msg_prefix, handlers, wf,
                   config, runner, releaseCount, runVars, ctxVars, prevRun>>

\* The contexts release reclaims: those of steps still in flight that are
\* not persisted for reuse.
InFlight == {ctxOf[s] : s \in {t \in Steps : st[t] = "Dispatched"}} \ {None}

\* cmd_run.py:180: leaving the `with` block, normally or by an exception,
\* runs WorkflowRunner.__exit__, that is release().
Exit ==
    /\ pc = "exit"
    /\ runner' = "released"
    /\ releaseCount' = releaseCount + 1
    /\ live' = IF config.reuse THEN live ELSE live \ InFlight
    /\ pc' = "done"
    /\ UNCHANGED <<runs, argVars, logVars, wf, config, failure, runVars,
                   store, nextCtx, prevRun>>

\* ------------------------------------------------------ specifications
RunnerStep ==
    PlanStep \/ DispatchStep \/ CompleteStep \/ Finish \/ Fault
        \/ HandlerDebug \/ HandlerFail \/ Exit

CliStep ==
    SetLevel \/ DryRunPrefix \/ AddLog \/ CheckFlags \/ Parse \/ LoadConfig
        \/ Enter \/ EnterFail

\* One invocation of the command, over every command line.
Start == runs = 0 /\ \E a \in AllArgs : Invoke(a)

Next == Start \/ CliStep \/ RunnerStep

Spec == Init /\ [][Next]_vars

\* Successive invocations on the same machine, over the options that
\* reach the Execution Backend.
ReuseArgs ==
    [step : {None}, skip : {{}}, debug : {FALSE}, quiet : {FALSE},
     dry_run : BOOLEAN, reuse : BOOLEAN, allow_loose : {TRUE},
     substitution : {{"X"}}, workspace : Workspaces,
     wfile : {"flat", "chain"}, log_file : {FALSE}]

StartAgain == runs < MaxRuns /\ \E a \in ReuseArgs : Invoke(a)

NextReuse == StartAgain \/ CliStep \/ RunnerStep

SpecReuse == Init /\ [][NextReuse]_vars

\* ---------------------------------------------------------- properties
BeforeCheck == {"set_level", "dry_prefix", "add_log", "check_flags"}
BeforeParse == BeforeCheck \cup {"parse"}

NothingStarted ==
    /\ ~wf.parsed
    /\ ~config.loaded
    /\ runner = "none"
    /\ st = AllPending
    /\ dispatched = <<>>
    /\ backendCalls = 0

Texts(t) == {i \in DOMAIN emitted : emitted[i].text = t}
Channel(c) == {i \in DOMAIN emitted : emitted[i].chan = c}
Ran == {dispatched[i] : i \in DOMAIN dispatched}
NoDeps(file) == \A s \in Steps : DepsOf(file, s) = {}

\* C1: a request with both a target STEP and a non-empty skip-list does no
\* work at all (workflow not parsed, configuration not loaded, runner not
\* acquired, no step planned or dispatched, no backend call) and, once
\* past the flag check, has ended with ConflictingFilters, reported once.
C1_ConflictingFilters ==
    (runs > 0 /\ Given(step) /\ skip # {}) =>
        /\ NothingStarted
        /\ pc \notin BeforeCheck =>
              /\ pc = "done"
              /\ failure = "ConflictingFilters"
              /\ Cardinality(Texts("conflict")) = 1
              /\ Texts("conflict") \subseteq Channel("ERROR")

C1_Witness ==
    /\ Given(step) /\ skip # {}
    /\ pc = "done"
    /\ failure = "ConflictingFilters"

\* C2: release() runs exactly once for an acquired runner, on every way
\* out of the scoped block: the process never ends with the runner still
\* acquired, release never runs twice or without an acquisition, and an
\* acquired runner can always take a further step towards its release.
C2_ReleaseOnEveryExit ==
    /\ releaseCount = (IF runner = "released" THEN 1 ELSE 0)
    /\ pc = "done" => runner # "acquired"
    /\ runner = "acquired" =>
          /\ pc \in {"run", "handler_debug", "handler_fail", "exit"}
          /\ ENABLED RunnerStep
    /\ pc \in {"run", "handler_debug", "handler_fail", "exit"} =>
          runner = "acquired"

C2_Witness ==
    /\ pc = "done"
    /\ fault
    /\ failure = "InternalFault"
    /\ runner = "released"
    /\ releaseCount = 1

\* The other ways out of the scoped block: run returned a Run Result.
C2_ReleasedAfterSuccess ==
    pc = "done" /\ runResult = "Success" /\ releaseCount = 1

C2_ReleasedAfterStepFailure ==
    pc = "done" /\ runResult = "Failure" /\ ~fault /\ releaseCount = 1

\* C3: in a workflow without dependencies, once a step has failed no later
\* step is planned or dispatched; and in the Run Result every step before
\* the failing one is Succeeded (Skipped if the filters removed it), the
\* failing one is Failed and every later one is Skipped.
C3_FailFast ==
    (wf.parsed /\ NoDeps(wf.file)) =>
        \A f \in Steps : st[f] = "Failed" =>
            /\ \A t \in Steps : t > f =>
                  /\ st[t] \in {"Pending", "Skipped"}
                  /\ t \notin Ran
            /\ runResult # "none" =>
                  /\ runResult = "Failure"
                  /\ \A t \in Steps : t < f =>
                        st[t] = (IF t \in Eligible(step, skip)
                                 THEN "Succeeded" ELSE "Skipped")
                  /\ \A t \in Steps : t > f => st[t] = "Skipped"

C3_Witness ==
    /\ wf.parsed /\ wf.file = "flat"
    /\ ~Given(step) /\ skip = {}
    /\ runResult = "Failure"
    /\ st[1] = "Succeeded"
    /\ st[2] = "Failed"
    /\ \A t \in Steps : t > 2 => st[t] = "Skipped"
    /\ dispatched = <<1, 2>>

\* C4: in a dry run the backend's context acquisition is never entered, no
\* context is taken, and every record the sink emits carries the prefix
\* "DRYRUN: ", which is installed before anything can be emitted.
C4_DryRun ==
    (runs > 0 /\ dry_run) =>
        /\ backendCalls = 0
        /\ ctxOf = NoContexts
        /\ \A i \in DOMAIN emitted : emitted[i].prefix = "DRYRUN: "
        /\ pc \in {"set_level", "dry_prefix"} => emitted = <<>>
        /\ pc \notin {"set_level", "dry_prefix"} => msg_prefix = "DRYRUN: "

C4_Witness ==
    /\ dry_run
    /\ pc = "done"
    /\ runResult = "Success"
    /\ Len(dispatched) = NumSteps
    /\ Len(emitted) = NumSteps

\* A dry run that fails the flag check: its one record has the prefix.
C4_PrefixedConflict ==
    /\ dry_run
    /\ failure = "ConflictingFilters"
    /\ Len(emitted) = 1
    /\ emitted[1].prefix = "DRYRUN: "

\* C5: with a substitution key that no step references (and a request that
\* is otherwise valid: no conflicting filters, no unresolved variable), a
\* strict run does no work and ends in the parser with UnusedSubstitution,
\* reported once, before the runner exists; a loose run never reports
\* UnusedSubstitution, gets its workflow parsed, and ends in Success
\* whenever the runner was acquired and no step failed and no fault arose.
C5_UnusedSubstitution ==
    LET unused == \E k \in substitution :
                      \A s \in Steps : k \notin RefsOf(wfile, s)
        resolved == \A s \in Steps : RefsOf(wfile, s) \subseteq substitution
        valid == ~(Given(step) /\ skip # {}) /\ resolved
    IN  (runs > 0 /\ unused) =>
            /\ (~allow_loose /\ valid) =>
                  /\ NothingStarted
                  /\ pc \notin BeforeParse =>
                        /\ pc = "done"
                        /\ failure = "UnusedSubstitution"
                        /\ Cardinality(Texts("UnusedSubstitution")) = 1
            /\ allow_loose =>
                  /\ failure # "UnusedSubstitution"
                  /\ Texts("UnusedSubstitution") = {}
                  /\ (valid /\ pc \notin BeforeParse) => wf.parsed
                  /\ (pc = "done" /\ runner = "released" /\ ~fault
                        /\ \A s \in Steps : st[s] # "Failed") =>
                        /\ runResult = "Success"
                        /\ failure = "none"

C5_Witness ==
    /\ ~allow_loose
    /\ substitution = {"Y"}
    /\ pc = "done"
    /\ failure = "UnusedSubstitution"
    /\ NothingStarted

\* The loose run with the same unused key.
C5_LooseSucceeds ==
    /\ allow_loose
    /\ substitution = {"Y"}
    /\ pc = "done"
    /\ runResult = "Success"
    /\ Len(dispatched) = NumSteps

\* C6: in a workflow without dependencies run with a skip-list and no
\* target step, the steps dispatched so far are always a prefix of the
\* declared sequence with the skip-list's members removed, and the whole
\* of it when the run succeeds; a skipped step is never dispatched and
\* never ends Failed.
NotSkipped(s) == s \notin skip

IsPrefix(a, b) == Len(a) <= Len(b) /\ a = SubSeq(b, 1, Len(a))

C6_SkipList ==
    (wf.parsed /\ NoDeps(wf.file) /\ ~Given(step)) =>
        LET plan == SelectSeq(Declared(wfile), NotSkipped) IN
        /\ IsPrefix(dispatched, plan)
        /\ runResult = "Success" => dispatched = plan
        /\ \A s \in skip :
              /\ s \notin Ran
              /\ st[s] \in {"Pending", "Skipped"}
              /\ runResult # "none" => st[s] = "Skipped"

C6_Witness ==
    /\ wf.parsed /\ wf.file = "flat"
    /\ ~Given(step) /\ skip = {2}
    /\ runResult = "Success"
    /\ dispatched = SelectSeq(Declared(wfile), NotSkipped)
    /\ Len(dispatched) = NumSteps - 1

\* C7: a step leaves Pending for anything but Skipped only when every one
\* of its dependencies is Succeeded; a step with a Failed step anywhere up
\* its dependency chain is never Resolving or Dispatched and is Skipped in
\* the Run Result.
RECURSIVE Ancestors(_, _)
Ancestors(file, s) ==
    DepsOf(file, s) \cup UNION {Ancestors(file, d) : d \in DepsOf(file, s)}

C7_DependencySkip ==
    wf.parsed =>
        \A s \in Steps :
            /\ st[s] \in {"Resolving", "Dispatched", "Succeeded", "Failed"} =>
                  \A d \in DepsOf(wf.file, s) : st[d] = "Succeeded"
            /\ s \in Ran => \A d \in DepsOf(wf.file, s) : st[d] = "Succeeded"
            /\ (\E a \in Ancestors(wf.file, s) : st[a] = "Failed") =>
                  /\ st[s] \in {"Pending", "Skipped"}
                  /\ runResult # "none" => st[s] = "Skipped"

C7_Witness ==
    /\ wf.parsed /\ wf.file = "chain"
    /\ st[1] = "Failed"
    /\ \A t \in Steps : t > 1 => st[t] = "Skipped"
    /\ runResult = "Failure"

\* A dependency skipped by the skip-list: its dependents are skipped too,
\* without any failure.
C7_SkippedDependency ==
    /\ wf.parsed /\ wf.file = "fan"
    /\ skip = {2}
    /\ runResult = "Success"
    /\ st[1] = "Succeeded"
    /\ st[2] = "Skipped"

\* C8: no context ever belongs to two different step identifiers, within a
\* run, across runs or in the persisted store; when this run and the
\* previous one both reuse, in the same workspace, a step that had a
\* context in both has the same one; when neither reuses, the contexts of
\* the two runs are distinct; and without reuse a finished step's context
\* is no longer live.
C8_Reuse ==
    /\ \A s, t \in Steps : (s # t /\ ctxOf[s] # None) =>
          /\ ctxOf[s] # ctxOf[t]
          /\ ctxOf[s] # prevRun.ctxOf[t]
    /\ \A w, v \in Workspaces : \A s, t \in Steps :
          (<<w, s>> # <<v, t>> /\ store[w][s] # None) =>
              store[w][s] # store[v][t]
    /\ (prevRun.used /\ prevRun.reuse /\ config.loaded /\ reuse
          /\ prevRun.workspace = workspace) =>
          \A s \in Steps : (ctxOf[s] # None /\ prevRun.ctxOf[s] # None) =>
              ctxOf[s] = prevRun.ctxOf[s]
    /\ (prevRun.used /\ ~prevRun.reuse /\ ~reuse) =>
          \A s, t \in Steps : ctxOf[s] # None => ctxOf[s] # prevRun.ctxOf[t]
    /\ (runs > 0 /\ ~reuse) =>
          \A s \in Steps : (st[s] \in Terminal /\ ctxOf[s] # None) =>
              ctxOf[s] \notin live

C8_Witness ==
    /\ prevRun.used /\ prevRun.reuse /\ reuse
    /\ prevRun.workspace = workspace
    /\ prevRun.wfile = wfile
    /\ pc = "done"
    /\ runResult = "Success"
    /\ \A s \in Steps : ctxOf[s] # None /\ ctxOf[s] = prevRun.ctxOf[s]

\* Two successive runs without reuse, each with contexts of its own.
C8_DistinctWithoutReuse ==
    /\ prevRun.used /\ ~prevRun.reuse /\ ~reuse
    /\ prevRun.workspace = workspace
    /\ pc = "done"
    /\ \A s \in Steps : ctxOf[s] # None /\ prevRun.ctxOf[s] # None
    /\ live = {}

\* C9: an internal fault of run is reported by exactly one failure record,
\* on the ERROR channel; the trace goes to the DEBUG channel only, so it is
\* emitted (once, and ahead of the failure record) when the level is DEBUG
\* and never at STEP_INFO or INFO; without a fault neither is emitted.
C9_FaultReport ==
    /\ Texts("trace") \subseteq Channel("DEBUG")
    /\ Texts("fault") \subseteq Channel("ERROR")
    /\ \A i \in Texts("trace") : \A j \in Texts("fault") : i < j
    /\ level \in {"STEP_INFO", "INFO"} => Texts("trace") = {}
    /\ ~fault => Texts("trace") = {} /\ Texts("fault") = {}
    /\ (fault /\ pc \in {"exit", "done"}) =>
          /\ failure = "InternalFault"
          /\ Cardinality(Texts("fault")) = 1
          /\ Cardinality(Channel("ERROR")) = 1
          /\ Cardinality(Texts("trace")) = (IF level = "DEBUG" THEN 1 ELSE 0)

C9_Witness ==
    /\ fault
    /\ pc = "done"
    /\ level = "DEBUG"
    /\ Cardinality(Texts("trace")) = 1
    /\ Cardinality(Texts("fault")) = 1

\* The same fault at the default and at the quiet level: no trace.
C9_NoTraceByDefault ==
    /\ fault
    /\ pc = "done"
    /\ level = "STEP_INFO"
    /\ Texts("trace") = {}
    /\ Cardinality(Texts("fault")) = 1

C9_NoTraceWhenQuiet ==
    /\ fault
    /\ pc = "done"
    /\ level = "INFO"
    /\ Texts("trace") = {}
    /\ Cardinality(Texts("fault")) = 1

\* C10: the level is DEBUG when debug is set, INFO when quiet is set and
\* debug is not, STEP_INFO otherwise; it is set once, as the first thing
\* the command does: until then nothing has been checked, parsed, loaded,
\* run or emitted.
C10_LogLevel ==
    runs > 0 =>
        /\ pc = "set_level" =>
              /\ levelSets = 0
              /\ level = "NOTSET"
              /\ emitted = <<>>
              /\ failure = "none"
              /\ NothingStarted
        /\ pc # "set_level" =>
              /\ levelSets = 1
              /\ debug => level = "DEBUG"
              /\ (quiet /\ ~debug) => level = "INFO"
              /\ (~quiet /\ ~debug) => level = "STEP_INFO"

C10_Witness ==
    /\ debug /\ quiet
    /\ level = "DEBUG"
    /\ pc = "done"
    /\ runResult = "Success"

====
